---- MODULE Spec2Model ----
(***************************************************************************)
(* Chladni plate simulation: the foreground ChladniApp (Driver, particle   *)
(* system, consumer of field messages) and the background GradientWorker   *)
(* (FieldGenerator), which exchange messages over two FIFO channels.       *)
(*                                                                         *)
(* The repository holds several variants of both sides:                    *)
(*   app    "index"    src/index.js            (slider selects CHLADNI_PARAMS)*)
(*          "part_000" src/unnamed/part_000    (continuous frequency slider)*)
(*   worker "index"    src/index.js:229-393    (chladniParams, timer)      *)
(*          "simple"   src/unnamed/part_001:1-129   (chladniParams, no timer)*)
(*          "freq"     src/unnamed/part_001:131-318 (frequency, timer)     *)
(*                                                                         *)
(* Encoding of JavaScript values                                           *)
(*   numbers        integers; lengths in pixels, l and frequency in 1e-4,  *)
(*                  intensities in 1/100                                   *)
(*   null/undefined/NaN in a numeric field: the negative codes below       *)
(*   object or null a sequence of length <= 1: <<>> is null (or undefined, *)
(*                  an absent message field), <<r>> is the object r        *)
(***************************************************************************)
EXTENDS Integers, Sequences, FiniteSets, TLC

VARIABLES
    appVariant,      \* which ChladniApp source runs in the foreground
    workerVariant,   \* which GradientWorker source runs in the background
    worker,          \* the GradientWorker object (and its module-level table)
    timers,          \* worker global: ids of the active setInterval timers
    nextTimerId,     \* worker global: the id the next setInterval returns
    toWorker,        \* messages posted by the main thread, not yet handled
    toApp,           \* messages posted by the worker, not yet delivered
    app,             \* the ChladniApp object
    window,          \* window.innerWidth / window.innerHeight
    resizePending,   \* the debounced resize callback is armed
    log,             \* history: messages emitted since the last handled reconfiguration
    staleAccess,     \* history: the last worker step touched a transferred buffer
    prevConfig,      \* history: Config(worker) before the last handled reconfiguration
    handled,         \* history: number of reconfiguration messages handled
    posted,          \* history: number of reconfiguration messages posted
    nonNullDeliveries, \* history: deliveries with non-null fields
    scatterCount,    \* history: number of times the particle positions were re-created
    rafPending,      \* frame callbacks requested with requestAnimationFrame, not yet run
    frame,           \* history: what the last call of update() sampled and wrote
    sweep            \* history: what the last call of checkForFallenParticles() did

vars == <<appVariant, workerVariant, worker, timers, nextTimerId, toWorker, toApp,
          app, window, resizePending, log, staleAccess, prevConfig, handled, posted,
          nonNullDeliveries, scatterCount, rafPending, frame, sweep>>

(***************************************************************************)
(* Bounds of the model                                                     *)
(***************************************************************************)
\* reconfiguration messages posted in one behaviour
MaxPosts == 2
\* reconfiguration messages the Driver posts in one behaviour of Spec
MaxEvents == 3
\* timer ticks after one reconfiguration
MaxTicks == 2
\* undelivered field messages
MaxQueue == 1
\* palette lengths 0..MaxPalette
MaxPalette == 2
\* particles (NUM_PARTICLES = 30000 in the source)
NumParticles == 1
\* window.innerWidth and window.innerHeight take the values 0 and MaxWindow
MaxWindow == 4
\* width and height of the reconfiguration messages of WorkerSpec: 0 and MaxGrid
MaxGrid == 3
\* calls of update() in one behaviour of FrameSpec
MaxFrames == 3
\* vibration values of the fields BakeSpec starts from: MaxLevel levels, one
\* below, one at and the others above the node threshold
MaxLevel == 3

(***************************************************************************)
(* JavaScript values                                                       *)
(***************************************************************************)
\* codes outside the range of every number the model computes
NULL == -999001
UNDEFINED == -999002
NaN == -999003

\* ToNumber on a numeric field: null is 0, undefined is NaN
ToNumber(v) == IF v = NULL THEN 0 ELSE IF v = UNDEFINED THEN NaN ELSE v

\* a * b
Times(a, b) ==
    IF ToNumber(a) = NaN \/ ToNumber(b) = NaN THEN NaN ELSE ToNumber(a) * ToNumber(b)

\* a + b and a - b
Plus(a, b) ==
    IF ToNumber(a) = NaN \/ ToNumber(b) = NaN THEN NaN ELSE ToNumber(a) + ToNumber(b)
Minus(a, b) ==
    IF ToNumber(a) = NaN \/ ToNumber(b) = NaN THEN NaN ELSE ToNumber(a) - ToNumber(b)

\* a % b for a >= 0
Rem(a, b) ==
    IF ToNumber(a) = NaN \/ ToNumber(b) = NaN \/ ToNumber(b) = 0 THEN NaN
    ELSE ToNumber(a) % ToNumber(b)

\* a < b (false when either side is NaN)
Less(a, b) == ToNumber(a) # NaN /\ ToNumber(b) # NaN /\ ToNumber(a) < ToNumber(b)

\* the length of new Float32Array(n): ToIndex(NaN) = 0
ArrayLength(n) == IF n = NaN THEN 0 ELSE n

\* Math.random() lies in [0, 1): the model samples 0 and a value just below 1,
\* written 1. Math.random() * n is then 0 or the largest model number below n.
Random == {0, 1}
RandomTimes(r, n) ==
    IF ToNumber(n) = NaN THEN NaN
    ELSE IF r = 0 \/ ToNumber(n) = 0 THEN 0
    ELSE ToNumber(n) - 1

(***************************************************************************)
(* Program constants                                                       *)
(***************************************************************************)
\* intensities in 1/100
MODERATE_RANDOM_VIBRATION_INTENSITY == 300
AGGRESSIVE_RANDOM_VIBRATION_INTENSITY == (MODERATE_RANDOM_VIBRATION_INTENSITY * 3) \div 2
DEFAULT_RANDOM_VIBRATION_INTENSITY == 200

\* spatial frequencies in 1e-4
L1 == 400
L2 == 200
L3 == 180

ChladniParams(m, n, l) == [m |-> m, n |-> n, l |-> l]

CHLADNI_PARAMS ==
    << ChladniParams(1, 2, L1), ChladniParams(1, 3, L3), ChladniParams(1, 4, L2),
       ChladniParams(1, 5, L2), ChladniParams(2, 3, L2), ChladniParams(2, 5, L2),
       ChladniParams(3, 4, L2), ChladniParams(3, 5, L2), ChladniParams(3, 7, L2) >>

AppVariants == {"index", "part_000"}
WorkerVariants == {"index", "simple", "freq"}
\* an app runs with a worker that reads the parameter field it sends
VariantPairs == {<<"index", "index">>, <<"index", "simple">>, <<"part_000", "freq">>}
HasTimer == workerVariant \in {"index", "freq"}

(***************************************************************************)
(* Numbers of the bake                                                     *)
(*                                                                         *)
(* Angles are kept in 1e-4 radian (the unit of x * l), Math.cos to two     *)
(* decimals, vibration values in 1/20000: the stored value |raw / 2| of a  *)
(* raw difference of two cosine products in 1e-4 is the integer |raw|.     *)
(* The rounding of a Float32Array cell to single precision is not kept.    *)
(***************************************************************************)
\* pi / 2, pi, 2 pi in 1e-3 radian and pi * pi in 1e-6
HalfPi == 1571
Pi == 3142
TwoPi == 6283
PiSquared == 9869604
\* 1e-4 radian per unit of TX and TY
AngleScale == 10000

\* Math.cos on [0, pi / 2], t in 1e-3 radian, result in 1/100
\* (Bhaskara's rational approximation, exact to the two decimals kept)
CosQuarter(t) ==
    ((PiSquared - 4 * t * t) * 100 + (PiSquared + t * t) \div 2) \div (PiSquared + t * t)
\* Math.cos on [0, pi]
CosHalf(r) == IF r <= HalfPi THEN CosQuarter(r) ELSE 0 - CosQuarter(Pi - r)
\* Math.cos on [0, 2 pi): cos(2 pi - r) = cos(r)
CosFold(r) == IF r > Pi THEN CosHalf(TwoPi - r) ELSE CosHalf(r)
\* Math.cos(a), a in 1e-4 radian
Cos(a) == CosFold((a \div 10) % TwoPi)

\* Math.sign(v)
Sign(v) == IF v > 0 THEN 1 ELSE IF v < 0 THEN 0 - 1 ELSE 0

\* 1e-2 in the unit of the vibration values
MIN_NODE_THRESHOLD == 200
\* Number.POSITIVE_INFINITY: above every vibration value
POSITIVE_INFINITY == 999000

\* a[i] of a typed array: undefined outside 0 .. length - 1
At(a, i) == IF i \in DOMAIN a.cells THEN a.cells[i] ELSE UNDEFINED

\* a <= b (false when either side is NaN)
LessEq(a, b) == ToNumber(a) # NaN /\ ToNumber(b) # NaN /\ ToNumber(a) <= ToNumber(b)

\* the draws of Math.random() for the tie-breaks are k / 8 with k in TieDraws
TieDraws == 0..7

(***************************************************************************)
(* GradientWorker                                                          *)
(*                                                                         *)
(* A callback of the worker runs to completion. Its execution context c    *)
(* holds the object (c.w), the worker's table of interval timers           *)
(* (c.active, c.next), the messages it posted (c.out) and whether one of   *)
(* its array accesses hit an array whose buffer was transferred (c.stale),  *)
(* and the draws of Math.random() its tie-breaks make (c.random).          *)
(***************************************************************************)
\* new GradientWorker()
GradientWorker(variant) ==
    [ vibrationValues |-> <<>>,
      gradients |-> <<>>,
      width  |-> IF variant = "simple" THEN 0 ELSE NULL,
      height |-> IF variant = "simple" THEN 0 ELSE NULL,
      bakingTimer |-> IF variant = "simple" THEN UNDEFINED ELSE NULL,
      isResonantRound |-> TRUE,
      currentParams |-> IF variant = "freq" THEN <<>> ELSE <<ChladniParams(1, 2, L1)>>,
      gradientParametersIndex |-> IF variant = "freq" THEN 0 ELSE UNDEFINED,
      currentFrequency |-> IF variant = "freq" THEN L1 ELSE UNDEFINED,
      table |-> IF variant = "freq" THEN CHLADNI_PARAMS ELSE <<>> ]

Context(w, active, next) ==
    [ w |-> w, active |-> active, next |-> next, out |-> <<>>, stale |-> FALSE,
      random |-> <<>> ]

\* the context of a callback whose tie-break at cell i draws random[i] / 8
WithRandom(c, random) == [c EXCEPT !.random = random]

\* the draw of the tie-break at cell i
TieDraw(c, i) == IF i \in DOMAIN c.random THEN c.random[i] ELSE 0

\* A typed array over a fresh, zero-filled buffer, with the inputs of the bake
\* that fills it.
Float32Array(len, w, params, rx, ry) ==
    [ detached |-> FALSE, length |-> ArrayLength(len),
      cells |-> [i \in 0..(ArrayLength(len) - 1) |-> 0],
      width |-> w.width, height |-> w.height,
      m |-> params.m, n |-> params.n, l |-> params.l,
      tx |-> RandomTimes(rx, w.height), ty |-> RandomTimes(ry, w.height) ]

\* the typed array left behind when its buffer was transferred
Detach(a) == [a EXCEPT !.detached = TRUE, !.length = 0, !.cells = <<>>]

\* mutant: the array of the previous bake is kept when there is one
AllocateVibrationValues_Reuse(c, chladniParams, rx, ry) ==
    IF c.w.vibrationValues # <<>> THEN c
    ELSE [c EXCEPT !.w.vibrationValues =
            <<Float32Array(Times(c.w.width, c.w.height), c.w, chladniParams, rx, ry)>>]

\* computeVibrationValues: this.vibrationValues = new Float32Array(width * height)
AllocateVibrationValues(c, chladniParams, rx, ry) ==
    [c EXCEPT !.w.vibrationValues =
        <<Float32Array(Times(c.w.width, c.w.height), c.w, chladniParams, rx, ry)>>]

\* computeVibrationValues: scaledX = x * L + TX, scaledY = y * L + TY
Scaled(x, l, t) == x * l + t * AngleScale

\* mutant: the halved difference is stored with its sign
StoredValue_Signed(raw) == raw

\* value /= 2; value *= Math.sign(value), in 1/20000
StoredValue(raw) == raw * Sign(raw)

\* computeVibrationValues: cos(NX) * cos(MY) - cos(MX) * cos(NY)
RawValue(m, n, sx, sy) == Cos(n * sx) * Cos(m * sy) - Cos(m * sx) * Cos(n * sy)

\* computeVibrationValues: the value stored at cell (x, y) of the array a
VibrationValue(a, x, y) ==
    StoredValue(RawValue(a.m, a.n, Scaled(x, a.l, a.tx), Scaled(y, a.l, a.ty)))

\* computeVibrationValues: the loops write every cell of this.vibrationValues.
\* Cell i = y * width + x is written once, with x = i % width, y = i \div width.
FillVibrationValues(c) ==
    [c EXCEPT !.stale = @ \/ ( /\ Less(0, c.w.width) /\ Less(0, c.w.height)
                               /\ c.w.vibrationValues[1].detached ),
              !.w.vibrationValues[1].cells =
                  [i \in DOMAIN @ |->
                      VibrationValue(c.w.vibrationValues[1], i % c.w.width,
                                     i \div c.w.width)]]

\* computeVibrationValues(chladniParams)
computeVibrationValues(c, chladniParams, rx, ry) ==
    FillVibrationValues(AllocateVibrationValues(c, chladniParams, rx, ry))

\* computeGradients: this.gradients = new Float32Array(width * height * 2)
AllocateGradients(c) ==
    [c EXCEPT !.w.gradients =
        <<[c.w.vibrationValues[1] EXCEPT
              !.detached = FALSE,
              !.length = ArrayLength(Times(Times(c.w.width, c.w.height), 2)),
              !.cells = [i \in 0..(ArrayLength(Times(Times(c.w.width, c.w.height), 2)) - 1)
                            |-> 0]]>>]

\* the offsets (nx, ny) in the order of the loops over ny and nx
NeighbourOffsets ==
    << <<0 - 1, 0 - 1>>, <<0, 0 - 1>>, <<1, 0 - 1>>, <<0 - 1, 0>>, <<1, 0>>,
       <<0 - 1, 1>>, <<0, 1>>, <<1, 1>> >>

\* candidateGradients = [[0, 0]]; minVibrationSoFar = Number.POSITIVE_INFINITY
NoNeighbourExamined == [ min |-> POSITIVE_INFINITY, candidates |-> << <<0, 0>> >> ]

\* mutant: a smaller neighbour does not empty the candidate list
Examine_NoReset(s, nv, offset) ==
    IF LessEq(nv, s.min)
    THEN [ min |-> nv, candidates |-> Append(s.candidates, offset) ]
    ELSE s

\* mutant: only a strictly smaller neighbour enters the candidate list
Examine_FirstOnly(s, nv, offset) ==
    IF Less(nv, s.min) THEN [ min |-> nv, candidates |-> <<offset>> ] ELSE s

\* the body of the neighbour loops for the neighbour at offset, whose value is nv
Examine(s, nv, offset) ==
    IF LessEq(nv, s.min)
    THEN IF Less(nv, s.min)
         THEN [ min |-> nv, candidates |-> <<offset>> ]
         ELSE [ s EXCEPT !.candidates = Append(@, offset) ]
    ELSE s

\* the index ni of the neighbour of (x, y) at offset
NeighbourIndex(width, x, y, offset) == (y + offset[2]) * width + (x + offset[1])

\* the neighbour loops after the first k neighbours of cell (x, y)
RECURSIVE Examined(_, _, _, _, _)
Examined(vib, width, x, y, k) ==
    IF k = 0 THEN NoNeighbourExamined
    ELSE CHOOSE r \in
           { Examine(s, At(vib, NeighbourIndex(width, x, y, NeighbourOffsets[k])),
                     NeighbourOffsets[k]) : s \in {Examined(vib, width, x, y, k - 1)} } : TRUE

\* candidateGradients at the end of the neighbour loops
candidateGradients(vib, width, x, y) ==
    Examined(vib, width, x, y, Len(NeighbourOffsets)).candidates

\* chosenGradient, with Math.random() = draw / 8
chosenGradient(candidates, draw) ==
    IF Len(candidates) = 1 THEN candidates[1]
    ELSE candidates[(draw * Len(candidates)) \div Cardinality(TieDraws) + 1]

\* mutant: no cell is below the threshold
BelowThreshold_Never(v) == FALSE

\* myVibration < MIN_NODE_THRESHOLD
BelowThreshold(v) == Less(v, MIN_NODE_THRESHOLD)

\* the gradient written at the interior cell (x, y)
Gradient(vib, width, x, y, draw) ==
    IF BelowThreshold(At(vib, y * width + x)) THEN <<0, 0>>
    ELSE chosenGradient(candidateGradients(vib, width, x, y), draw)

\* mutant: the loops run over every cell
IsInterior_All(width, height, x, y) == TRUE

\* the cells of the loops: 1 <= y < height - 1, 1 <= x < width - 1
IsInterior(width, height, x, y) ==
    /\ 1 <= y /\ Less(y, Minus(height, 1))
    /\ 1 <= x /\ Less(x, Minus(width, 1))

\* the gradient the loops leave at cell i = y * width + x: the one they write
\* when they reach the cell, and the (0, 0) of the allocation otherwise
CellGradient(c, i) ==
    IF IsInterior(c.w.width, c.w.height, i % c.w.width, i \div c.w.width)
    THEN Gradient(c.w.vibrationValues[1], c.w.width, i % c.w.width, i \div c.w.width,
                  TieDraw(c, i))
    ELSE <<0, 0>>

\* this.gradients after the loops: elements 2 i and 2 i + 1 hold the gradient
\* of cell i
GradientCells(c) ==
    CHOOSE cells \in
        { [j \in DOMAIN c.w.gradients[1].cells |-> g[j \div 2][(j % 2) + 1]] :
            g \in { [i \in 0..((c.w.gradients[1].length \div 2) - 1) |-> CellGradient(c, i)] } } :
        TRUE

\* computeGradients: the loops read this.vibrationValues at the interior cells
\* and their neighbours and write this.gradients at the interior cells
FillGradients(c) ==
    [c EXCEPT !.stale = @ \/ ( /\ Less(1, Minus(c.w.width, 1))
                               /\ Less(1, Minus(c.w.height, 1))
                               /\ ( \/ c.w.vibrationValues[1].detached
                                    \/ c.w.gradients[1].detached ) ),
              !.w.gradients[1].cells = GradientCells(c)]

\* computeGradients()
computeGradients(c) == FillGradients(AllocateGradients(c))

\* recalculateGradients(chladniParams)
recalculateGradients(c, chladniParams, rx, ry) ==
    computeGradients(computeVibrationValues(c, chladniParams, rx, ry))

\* the message of a resonant round
ResonantMessage(w) ==
    [ vibrationIntensity |-> MODERATE_RANDOM_VIBRATION_INTENSITY,
      vibrationValues |-> w.vibrationValues,
      gradients |-> w.gradients ]

\* mutant: the rest round announces the intensity of a resonant round
RestMessage_Moderate ==
    [ vibrationIntensity |-> MODERATE_RANDOM_VIBRATION_INTENSITY,
      vibrationValues |-> <<>>,
      gradients |-> <<>> ]

\* the message of a rest round
RestMessage ==
    [ vibrationIntensity |-> AGGRESSIVE_RANDOM_VIBRATION_INTENSITY,
      vibrationValues |-> <<>>,
      gradients |-> <<>> ]

\* self.postMessage of a resonant round: both buffers are in the transfer list
PostResonant(c) ==
    [c EXCEPT !.out = Append(@, ResonantMessage(c.w)),
              !.w.vibrationValues = <<Detach(c.w.vibrationValues[1])>>,
              !.w.gradients = <<Detach(c.w.gradients[1])>>]

\* self.postMessage of a rest round
PostRest(c) == [c EXCEPT !.out = Append(@, RestMessage)]

\* part_001: chladniParams = CHLADNI_PARAMS[index]; chladniParams.l = currentFrequency
SelectParams(c) ==
    IF workerVariant = "freq"
    THEN [c EXCEPT !.w.table[c.w.gradientParametersIndex + 1].l = c.w.currentFrequency]
    ELSE c

\* the parameters handed to recalculateGradients
BakeParams(w) ==
    IF workerVariant = "freq" THEN w.table[w.gradientParametersIndex + 1]
    ELSE w.currentParams[1]

\* the bake of a resonant round with its parameters
Bake(c, rx, ry) == recalculateGradients(c, BakeParams(c.w), rx, ry)

\* mutant: the index into CHLADNI_PARAMS is never advanced
AdvanceParams_Never(c) == c

\* part_001: gradientParametersIndex = (gradientParametersIndex + 1) % length
AdvanceParams(c) ==
    IF workerVariant = "freq"
    THEN [c EXCEPT !.w.gradientParametersIndex = (@ + 1) % Len(CHLADNI_PARAMS)]
    ELSE c

\* the resonant branch of bakeNextGradients (and the bake of the "simple" handler)
BakeResonant(c, rx, ry) ==
    PostResonant(AdvanceParams(Bake(SelectParams(c), rx, ry)))

\* mutant: the round flag is never toggled
ToggleRound_Never(c) == c

\* this.isResonantRound = !this.isResonantRound
ToggleRound(c) == [c EXCEPT !.w.isResonantRound = ~@]

\* the two branches of bakeNextGradients
BakeRound(c, rx, ry) ==
    IF c.w.isResonantRound THEN BakeResonant(c, rx, ry) ELSE PostRest(c)

\* bakeNextGradients()
bakeNextGradients(c, rx, ry) == ToggleRound(BakeRound(c, rx, ry))

\* the assignments at the head of receiveUpdateFromMainThread(message)
ApplyFields(c, data) ==
    IF workerVariant = "freq"
    THEN [c EXCEPT !.w.width  = IF data.width  # UNDEFINED THEN data.width  ELSE @,
                   !.w.height = IF data.height # UNDEFINED THEN data.height ELSE @,
                   !.w.currentFrequency =
                       IF data.frequency # UNDEFINED THEN data.frequency ELSE @]
    ELSE [c EXCEPT !.w.width  = data.width,
                   !.w.height = data.height,
                   !.w.currentParams =
                       IF data.chladniParams # <<>>
                       THEN <<ChladniParams(data.chladniParams[1].m,
                                            data.chladniParams[1].n,
                                            data.chladniParams[1].l)>>
                       ELSE @]

\* mutant: the stored timer is not cleared
ClearBakingTimer_Skip(c) == c

\* if (this.bakingTimer) clearInterval(this.bakingTimer)
ClearBakingTimer(c) ==
    IF c.w.bakingTimer > 0 THEN [c EXCEPT !.active = @ \ {c.w.bakingTimer}] ELSE c

\* mutant: the round flag keeps its phase across a reconfiguration
StartResonant_Keep(c) == c

\* this.isResonantRound = true
StartResonant(c) == [c EXCEPT !.w.isResonantRound = TRUE]

\* this.bakingTimer = setInterval(bakeNextGradients, GRADIENT_RENEWAL_PERIOD_IN_MS)
SetBakingTimer(c) ==
    [c EXCEPT !.w.bakingTimer = c.next, !.active = @ \cup {c.next}, !.next = @ + 1]

\* the schedule part of receiveUpdateFromMainThread
Reschedule(c, rx, ry) ==
    SetBakingTimer(bakeNextGradients(StartResonant(ClearBakingTimer(c)), rx, ry))

\* mutant: the handler bakes before it applies the fields of the message
receiveUpdate_BakeFirst(c, data, rx, ry) ==
    IF workerVariant = "simple"
    THEN ApplyFields(BakeResonant(c, rx, ry), data)
    ELSE ApplyFields(Reschedule(c, rx, ry), data)

\* receiveUpdateFromMainThread(message)
receiveUpdateFromMainThread(c, data, rx, ry) ==
    IF workerVariant = "simple"
    THEN BakeResonant(ApplyFields(c, data), rx, ry)
    ELSE Reschedule(ApplyFields(c, data), rx, ry)

(***************************************************************************)
(* ChladniApp                                                              *)
(*                                                                         *)
(* The execution context c of a foreground callback holds the object       *)
(* (c.a), the messages it posted to the worker (c.out), whether it threw   *)
(* (c.threw), whether it re-created the particle positions (c.scattered),  *)
(* the frame callbacks it requested (c.requested), whether update() ran    *)
(* its particle loop (c.advanced), the positions the loop started from     *)
(* (c.before) and, per particle, the index at which it read this.gradients *)
(* (c.sampled) and the element of this.buffer it colored (c.written), each *)
(* <<>> when there was none.                                               *)
(***************************************************************************)
\* CANVAS_SCALE = 1.5 as the ratio CANVAS_SCALE_NUM / CANVAS_SCALE_DEN
CANVAS_SCALE_NUM == 3
CANVAS_SCALE_DEN == 2

\* particle coordinates are kept in 1/PositionScale pixel
PositionScale == 100

\* Math.ceil(inner / CANVAS_SCALE)
CanvasSize(inner) ==
    (inner * CANVAS_SCALE_DEN + CANVAS_SCALE_NUM - 1) \div CANVAS_SCALE_NUM

\* the colors the constructor reads from the style sheet: particle-color-1, ...
ParticleColors == <<"particle-color-1", "particle-color-2", "particle-color-3",
                    "particle-color-4">>

\* this.colors[i]
ColorAt(colors, i) ==
    IF i # NaN /\ i >= 0 /\ i < Len(colors) THEN colors[i + 1] ELSE "undefined"

NoParticle == [i \in 1..NumParticles |-> <<>>]
AppContext(a) ==
    [ a |-> a, out |-> <<>>, threw |-> FALSE, scattered |-> FALSE,
      requested |-> 0, advanced |-> FALSE, before |-> a.particles,
      sampled |-> NoParticle, written |-> NoParticle ]

\* the reconfiguration messages of the two protocols
ParamsMessage(width, height, params) ==
    [ width |-> width, height |-> height,
      chladniParams |-> <<ChladniParams(params.m, params.n, params.l)>>,
      frequency |-> UNDEFINED ]
FrequencyMessage(width, height, frequency) ==
    [ width |-> width, height |-> height, chladniParams |-> <<>>,
      frequency |-> frequency ]

\* sendParamsToWorker(index) of index.js
sendParamsToWorker(c, index) ==
    [c EXCEPT !.out = Append(@, ParamsMessage(c.a.width, c.a.height,
                                               CHLADNI_PARAMS[index + 1]))]

\* this.worker.postMessage({width, height, frequency}) of part_000
sendFrequencyToWorker(c) ==
    [c EXCEPT !.out = Append(@, FrequencyMessage(c.a.width, c.a.height,
                                                  c.a.currentFrequency))]

\* mutant: the index is advanced without the modulo
NextColor_NoWrap(a) ==
    [a EXCEPT !.colorIndex = Plus(a.colorIndex, 1),
              !.selectedColor = ColorAt(a.colors, Plus(a.colorIndex, 1))]

\* this.colorIndex = (this.colorIndex + 1) % this.colors.length; selectedColor
NextColor(a) ==
    [a EXCEPT !.colorIndex = Rem(Plus(a.colorIndex, 1), Len(a.colors)),
              !.selectedColor =
                  ColorAt(a.colors, Rem(Plus(a.colorIndex, 1), Len(a.colors)))]

\* mutant: a message without fields leaves the stored fields in place
StoreMessage_KeepField(a, data) ==
    [a EXCEPT !.vibrationIntensity = data.vibrationIntensity,
              !.halfVibrationIntensity = data.vibrationIntensity \div 2,
              !.vibrationValues = IF data.vibrationValues = <<>> THEN @ ELSE data.vibrationValues,
              !.gradients = IF data.gradients = <<>> THEN @ ELSE data.gradients]

\* the assignments at the head of onMessageFromWorker(message)
StoreMessage(a, data) ==
    [a EXCEPT !.vibrationIntensity = data.vibrationIntensity,
              !.halfVibrationIntensity = data.vibrationIntensity \div 2,
              !.vibrationValues = data.vibrationValues,
              !.gradients = data.gradients]

\* if (this.gradients) { ... }
ColorOnField(a) == IF a.gradients # <<>> THEN NextColor(a) ELSE a

\* onMessageFromWorker(message)
onMessageFromWorker(a, data) == ColorOnField(StoreMessage(a, data))

\* resize(): this.width, this.height and the canvas attributes
SetSize(c, win) ==
    [c EXCEPT !.a.width = CanvasSize(win.innerWidth),
              !.a.height = CanvasSize(win.innerHeight)]

\* mutant: resize() sends nothing to the worker
SendSize_Silent(c) ==
    IF appVariant = "index" /\ c.a.freqSlider = <<>> THEN [c EXCEPT !.threw = TRUE] ELSE c

\* resize(): the message to the worker. index.js reads this.freqSlider.value,
\* a TypeError when there is no slider.
SendSize(c) ==
    IF appVariant = "index"
    THEN IF c.a.freqSlider = <<>> THEN [c EXCEPT !.threw = TRUE]
         ELSE sendParamsToWorker(c, c.a.freqSlider[1].value)
    ELSE sendFrequencyToWorker(c)

\* resize(): getImageData, which throws IndexSizeError for a zero width or
\* height, and the new framebuffer
NewBuffer(c) ==
    IF c.threw THEN c
    ELSE IF c.a.width = 0 \/ c.a.height = 0 THEN [c EXCEPT !.threw = TRUE]
    ELSE [c EXCEPT !.a.imageData = <<[width |-> c.a.width, height |-> c.a.height]>>,
                   !.a.buffer = <<[length |-> c.a.width * c.a.height,
                                   cells |-> [k \in 0..(c.a.width * c.a.height - 1)
                                                 |-> "transparent"]]>>]

\* resize(): the loop that gives every particle a random position; rs[i] are
\* the two Math.random() draws of particle i
Scatter(c, rs) ==
    IF c.threw THEN c
    ELSE [c EXCEPT !.a.particles = [i \in 1..NumParticles |->
                        << RandomTimes(rs[i][1], c.a.width * PositionScale),
                           RandomTimes(rs[i][2], c.a.height * PositionScale) >>],
                   !.scattered = TRUE]

\* resize()
resize(c, win, rs) == Scatter(NewBuffer(SendSize(SetSize(c, win))), rs)

\* 0.4 pixel in 1/PositionScale pixel
MAX_GRADIENT_INTENSITY == 40

\* Math.round of a coordinate: the nearest pixel, halves upwards
Round(v) ==
    IF ToNumber(v) = NaN THEN NaN
    ELSE (ToNumber(v) + PositionScale \div 2) \div PositionScale

\* obtainGradientAt: index = (y * this.width + x) * 2 for the rounded x and y
GradientIndex(a, p) == Times(Plus(Times(Round(p[2]), a.width), Round(p[1])), 2)

\* obtainGradientAt(x, y)
obtainGradientAt(a, p) ==
    << At(a.gradients[1], GradientIndex(a, p)),
       At(a.gradients[1], Plus(GradientIndex(a, p), 1)) >>

\* x += MAX_GRADIENT_INTENSITY * gradX; y += MAX_GRADIENT_INTENSITY * gradY
Pull(p, g) ==
    << Plus(p[1], Times(MAX_GRADIENT_INTENSITY, g[1])),
       Plus(p[2], Times(MAX_GRADIENT_INTENSITY, g[2])) >>

\* mutant: the jitter is not centred
Jitter_OneSided(a, r) == RandomTimes(r, a.vibrationIntensity * 2)

\* Math.random() * this.vibrationIntensity - this.halfVibrationIntensity
Jitter(a, r) == Minus(RandomTimes(r, a.vibrationIntensity), a.halfVibrationIntensity)

\* x += jitter; y += jitter, with the draws j of the two calls of Math.random()
Shake(a, p, j) == << Plus(p[1], Jitter(a, j[1])), Plus(p[2], Jitter(a, j[2])) >>

\* the body of the particle loop of update() up to the two stores
AdvanceParticle(a, p, j) ==
    IF a.gradients # <<>> THEN Shake(a, Pull(p, obtainGradientAt(a, p)), j)
    ELSE Shake(a, p, j)

\* update(): the new positions of the particle loop
Advance(c, js) ==
    [c EXCEPT !.a.particles =
                  [i \in 1..NumParticles |-> AdvanceParticle(c.a, c.a.particles[i], js[i])],
              !.sampled =
                  [i \in 1..NumParticles |->
                      IF c.a.gradients # <<>>
                      THEN <<GradientIndex(c.a, c.a.particles[i])>> ELSE <<>>],
              !.advanced = TRUE,
              !.before = c.a.particles]

\* the color of Utils.rgbToVal(intensity, intensity, intensity) in debug mode
VibrationLevel == "vibration-level"

\* update(): the background of the frame
FillBuffer(c) ==
    IF c.a.buffer = <<>> THEN [c EXCEPT !.threw = TRUE]
    ELSE IF c.a.debugVibration /\ c.a.vibrationValues # <<>>
    THEN [c EXCEPT !.a.buffer[1].cells =
             [k \in DOMAIN @ |->
                 IF k < c.a.vibrationValues[1].length THEN VibrationLevel ELSE @[k]]]
    ELSE [c EXCEPT !.a.buffer[1].cells = [k \in DOMAIN @ |-> "background-color"]]

\* const color = this.gradients ? this.selectedColor : this.nonResonantColor
Color(a) == IF a.gradients # <<>> THEN a.selectedColor ELSE "non-resonant-color"

\* the index Math.round(y) * this.width + Math.round(x) of the raster store
RasterIndex(a, p) == Plus(Times(Round(p[2]), a.width), Round(p[1]))

\* update(): this.buffer[index] = color for every particle, at its new position;
\* a store outside 0 .. length - 1 of a typed array has no effect
Raster(c) ==
    IF c.threw THEN c
    ELSE [c EXCEPT !.a.buffer[1].cells =
                       [k \in DOMAIN @ |->
                           IF \E i \in 1..NumParticles :
                                  RasterIndex(c.a, c.a.particles[i]) = k
                           THEN Color(c.a) ELSE @[k]],
                   !.written =
                       [i \in 1..NumParticles |->
                           IF RasterIndex(c.a, c.a.particles[i]) \in DOMAIN c.a.buffer[1].cells
                           THEN <<RasterIndex(c.a, c.a.particles[i])>> ELSE <<>>]]

\* this.fpsCount++; requestAnimationFrame(this.updateFn)
RequestFrame(c) ==
    IF c.threw THEN c
    ELSE [c EXCEPT !.a.fpsCount = @ + 1, !.requested = @ + 1]

\* update() while running: background, particle loop, putImageData
RunningFrame(c, js) ==
    IF c.a.buffer = <<>> THEN [c EXCEPT !.threw = TRUE]
    ELSE Raster(Advance(FillBuffer(c), js))

\* mutant: the frame runs whether or not the simulation is paused
update_IgnorePause(c, js) ==
    IF c.threw THEN c ELSE RequestFrame(RunningFrame(c, js))

\* mutant: a paused frame counts itself but requests no next frame
update_PausedStops(c, js) ==
    IF c.threw THEN c
    ELSE IF ~c.a.isRunning THEN [c EXCEPT !.a.fpsCount = @ + 1]
    ELSE RequestFrame(RunningFrame(c, js))

\* update()
update(c, js) ==
    IF c.threw THEN c
    ELSE IF ~c.a.isRunning THEN RequestFrame(c)
    ELSE RequestFrame(RunningFrame(c, js))

\* keypress(event)
keypress(a, key) ==
    IF key = "d" THEN [a EXCEPT !.debugVibration = ~@]
    ELSE IF key = " " THEN [a EXCEPT !.isRunning = ~@]
    ELSE a

\* const SLACK = 100, in 1/PositionScale pixel
SLACK == 100 * PositionScale

\* mutant: a particle on the left or upper slack line counts as fallen
didFall_OnLine(a, p) ==
    \/ LessEq(p[1], 0 - SLACK) \/ LessEq(a.width * PositionScale + SLACK, p[1])
    \/ LessEq(p[2], 0 - SLACK) \/ LessEq(a.height * PositionScale + SLACK, p[2])

\* didFall = x < -SLACK || x >= this.width + SLACK || y < -SLACK || y >= this.height + SLACK
didFall(a, p) ==
    \/ Less(p[1], 0 - SLACK) \/ LessEq(a.width * PositionScale + SLACK, p[1])
    \/ Less(p[2], 0 - SLACK) \/ LessEq(a.height * PositionScale + SLACK, p[2])

\* checkForFallenParticles(): rs[i] are the two Math.random() draws of particle
\* i. The method of index.js has an empty body.
checkForFallenParticles(a, rs) ==
    IF appVariant = "index" THEN a
    ELSE [a EXCEPT !.particles =
             [i \in 1..NumParticles |->
                 IF didFall(a, a.particles[i])
                 THEN << RandomTimes(rs[i][1], a.width * PositionScale),
                         RandomTimes(rs[i][2], a.height * PositionScale) >>
                 ELSE a.particles[i]]]

\* the fields set by the constructor before it calls resize()
NewApp(win, palette) ==
    [ imageData |-> <<>>, buffer |-> <<>>,
      vibrationValues |-> <<>>, gradients |-> <<>>,
      vibrationIntensity |-> DEFAULT_RANDOM_VIBRATION_INTENSITY,
      halfVibrationIntensity |-> DEFAULT_RANDOM_VIBRATION_INTENSITY \div 2,
      debugVibration |-> FALSE, isRunning |-> TRUE, fpsCount |-> 0,
      width |-> CanvasSize(win.innerWidth), height |-> CanvasSize(win.innerHeight),
      currentFrequency |-> IF appVariant = "part_000" THEN L1 ELSE UNDEFINED,
      particles |-> [i \in 1..NumParticles |-> <<0, 0>>],
      colorIndex |-> 0,
      colors |-> SubSeq(ParticleColors, 1, palette),
      selectedColor |-> ColorAt(SubSeq(ParticleColors, 1, palette), 0),
      freqSlider |-> <<>>,
      constructed |-> FALSE ]

\* the constructor after resize() and the first update(): it creates the
\* slider and, in index.js, sends the first parameters. Nothing of it runs when
\* resize() threw.
CreateSlider(c) ==
    IF c.threw THEN c
    ELSE IF appVariant = "index"
    THEN sendParamsToWorker(
             [c EXCEPT !.a.freqSlider = <<[value |-> 0]>>, !.a.constructed = TRUE], 0)
    ELSE [c EXCEPT !.a.freqSlider = <<[value |-> c.a.currentFrequency]>>,
                   !.a.constructed = TRUE]

\* new ChladniApp(): rs are the draws of resize(), js those of the first update()
ChladniApp(win, palette, rs, js) ==
    CreateSlider(update(resize(AppContext(NewApp(win, palette)), win, rs), js))

\* the user sets the slider
SetSlider(c, value) == [c EXCEPT !.a.freqSlider = <<[value |-> value]>>]

\* the "input" listener of the slider
SliderListener(c) ==
    IF appVariant = "index"
    THEN sendParamsToWorker(c, c.a.freqSlider[1].value)
    ELSE sendFrequencyToWorker(
             [c EXCEPT !.a.currentFrequency = c.a.freqSlider[1].value])

\* an "input" event of the frequency slider
SliderInput(c, value) == SliderListener(SetSlider(c, value))

(***************************************************************************)
(* The state after construction of both sides                              *)
(***************************************************************************)
WindowSizes == {0, MaxWindow}
Windows == [innerWidth : WindowSizes, innerHeight : WindowSizes]
Draws == [1..NumParticles -> Random \X Random]
\* the draws of one resize() that the model samples: the least or the
\* greatest draw, for every particle and both axes
ScatterDraws == { [i \in 1..NumParticles |-> <<r, r>>] : r \in Random }
\* the two draws of one bake (TX, TY) that the model samples
PhaseDraws == {<<0, 1>>, <<1, 0>>}

\* the tie-break draws of one bake that Spec, WorkerSpec and FrameSpec sample:
\* the least draw at every cell (BakeSpec takes every draw)
TieSamples == { <<>> }

\* what the worker holds of a configuration
Config(w) == [ width |-> w.width, height |-> w.height,
               l |-> IF workerVariant = "freq" THEN w.currentFrequency
                     ELSE w.currentParams[1].l,
               round |-> w.isResonantRound ]

\* the grid this.gradients was baked for and its number of elements
FieldOf(a) ==
    IF a.gradients = <<>> THEN <<>>
    ELSE <<[ width |-> a.gradients[1].width, height |-> a.gradients[1].height,
             length |-> a.gradients[1].length ]>>

\* what a call of update() leaves in the history
FrameOf(c) ==
    [ advanced |-> c.advanced, requested |-> c.requested,
      paused |-> ~c.a.isRunning, afterPause |-> FALSE,
      active |-> c.a.gradients # <<>>, intensity |-> c.a.vibrationIntensity,
      field |-> FieldOf(c.a),
      width |-> c.a.width, height |-> c.a.height,
      before |-> c.before, after |-> c.a.particles,
      sampled |-> c.sampled, written |-> c.written ]

\* the jitter draws of one update() that Spec and WorkerSpec sample for the
\* update() of the constructor: the least draw on both axes
LeastDraws == { [i \in 1..NumParticles |-> <<0, 0>>] }

\* the history before the first call of checkForFallenParticles()
NoSweep(a) ==
    [ ran |-> FALSE, width |-> a.width, height |-> a.height,
      before |-> a.particles, after |-> a.particles ]

\* the positions the particles of a constructed app have drifted to, if any:
\* drift is <<>> or <<positions>>
Drifted(a, drift) ==
    IF drift # <<>> /\ a.constructed THEN [a EXCEPT !.particles = drift[1]] ELSE a

\* the state after new ChladniApp() and new GradientWorker(), the first
\* update() drawing its jitter from jitters, and after the frames that moved
\* the particles to the positions of one of drifts
InitDrifted(jitters, drifts) ==
    /\ appVariant \in AppVariants
    /\ workerVariant \in WorkerVariants
    /\ <<appVariant, workerVariant>> \in VariantPairs
    /\ window \in Windows
    /\ \E palette \in 0..MaxPalette, rs \in ScatterDraws, js \in jitters, drift \in drifts :
         \E c \in {ChladniApp(window, palette, rs, js)} :
             /\ app = Drifted(c.a, drift)
             /\ toWorker = c.out
             /\ posted = Len(c.out)
             /\ scatterCount = IF c.scattered THEN 1 ELSE 0
             /\ rafPending = c.requested
             /\ frame = FrameOf(c)
             /\ sweep = NoSweep(Drifted(c.a, drift))
    /\ worker = GradientWorker(workerVariant)
    /\ timers = {}
    /\ nextTimerId = 1
    /\ toApp = <<>>
    /\ resizePending = FALSE
    /\ log = <<>>
    /\ staleAccess = FALSE
    /\ prevConfig = Config(worker)
    /\ handled = 0
    /\ nonNullDeliveries = 0

\* the state after construction alone
InitWith(jitters) == InitDrifted(jitters, { <<>> })

Init == InitWith(LeastDraws)

frameVars == <<rafPending, frame, sweep>>
appVars == <<app, window, resizePending, nonNullDeliveries, scatterCount, frameVars>>
workerVars == <<worker, timers, nextTimerId, log, staleAccess, prevConfig, handled>>
variantVars == <<appVariant, workerVariant>>

(***************************************************************************)
(* Background context                                                      *)
(***************************************************************************)
\* the worker's "message" event: receiveUpdateFromMainThread runs to completion
ReceiveUpdate ==
    /\ toWorker # <<>>
    /\ Len(toApp) < MaxQueue
    /\ \E d \in PhaseDraws, random \in TieSamples :
         \E c \in {receiveUpdateFromMainThread(
                       WithRandom(Context(worker, timers, nextTimerId), random),
                       Head(toWorker), d[1], d[2])} :
             /\ worker' = c.w
             /\ timers' = c.active
             /\ nextTimerId' = c.next
             /\ toApp' = toApp \o c.out
             /\ log' = c.out
             /\ staleAccess' = c.stale
    /\ toWorker' = Tail(toWorker)
    /\ prevConfig' = Config(worker)
    /\ handled' = handled + 1
    /\ UNCHANGED <<appVars, posted, variantVars>>

\* one callback of an active interval timer: bakeNextGradients
Tick ==
    /\ timers # {}
    /\ Len(log) <= MaxTicks
    /\ Len(toApp) < MaxQueue
    /\ \E id \in timers, d \in PhaseDraws, random \in TieSamples :
         \E c \in {bakeNextGradients(
                       WithRandom(Context(worker, timers, nextTimerId), random),
                       d[1], d[2])} :
             /\ worker' = c.w
             /\ toApp' = toApp \o c.out
             /\ log' = log \o c.out
             /\ staleAccess' = c.stale
    /\ UNCHANGED <<timers, nextTimerId, prevConfig, handled, toWorker, appVars, posted,
                   variantVars>>

(***************************************************************************)
(* Foreground context                                                      *)
(***************************************************************************)
\* the app's "message" event: onMessageFromWorker
Deliver ==
    /\ toApp # <<>>
    /\ app' = onMessageFromWorker(app, Head(toApp))
    /\ toApp' = Tail(toApp)
    /\ nonNullDeliveries' =
         IF Head(toApp).gradients # <<>> THEN nonNullDeliveries + 1 ELSE nonNullDeliveries
    /\ UNCHANGED <<window, resizePending, scatterCount, workerVars, toWorker, posted,
                   variantVars, frameVars>>

\* the window takes a new size: the "resize" listener arms the debounced callback
WindowResized ==
    /\ \E win \in Windows : win # window /\ window' = win
    /\ resizePending' = TRUE
    /\ UNCHANGED <<app, nonNullDeliveries, scatterCount, workerVars, toWorker, toApp,
                   posted, variantVars, frameVars>>

\* the debounced callback fires: resize()
Resize ==
    /\ resizePending
    /\ posted < MaxEvents
    /\ \E rs \in ScatterDraws :
         \E c \in {resize(AppContext(app), window, rs)} :
             /\ app' = c.a
             /\ toWorker' = toWorker \o c.out
             /\ posted' = posted + Len(c.out)
             /\ scatterCount' = IF c.scattered THEN scatterCount + 1 ELSE scatterCount
    /\ resizePending' = FALSE
    /\ UNCHANGED <<window, nonNullDeliveries, workerVars, toApp, variantVars, frameVars>>

\* the values the user can give the slider: indices of CHLADNI_PARAMS in
\* index.js, frequencies between 0.005 and 0.05 in part_000
SliderFrequencies == {50, L2, 500}
SliderValues ==
    IF appVariant = "index" THEN 0..(Len(CHLADNI_PARAMS) - 1) ELSE SliderFrequencies

\* the user moves the frequency slider: its "input" listener
Slider ==
    /\ app.constructed
    /\ posted < MaxEvents
    /\ \E value \in SliderValues \ {app.freqSlider[1].value} :
         \E c \in {SliderInput(AppContext(app), value)} :
             /\ app' = c.a
             /\ toWorker' = toWorker \o c.out
             /\ posted' = posted + Len(c.out)
    /\ UNCHANGED <<window, resizePending, nonNullDeliveries, scatterCount, workerVars,
                   toApp, variantVars, frameVars>>

Next == WindowResized \/ Resize \/ Slider \/ ReceiveUpdate \/ Tick \/ Deliver

Spec == Init /\ [][Next]_vars

(***************************************************************************)
(* The worker under any main thread that follows the message interface:    *)
(* every field of a reconfiguration message is optional.                   *)
(***************************************************************************)
MessageSizes == {UNDEFINED, 0, MaxGrid}
ReconfigurationMessages ==
    { [ width |-> w, height |-> h, chladniParams |-> c, frequency |-> f ] :
        w \in MessageSizes, h \in MessageSizes,
        c \in {<<>>, <<CHLADNI_PARAMS[5]>>}, f \in {UNDEFINED, L2} }

\* the main thread posts a reconfiguration message
PostReconfiguration ==
    /\ posted < MaxPosts
    /\ \E data \in ReconfigurationMessages :
         /\ data.chladniParams = <<>> \/ data.frequency = UNDEFINED
         /\ toWorker' = Append(toWorker, data)
    /\ posted' = posted + 1
    /\ UNCHANGED <<appVars, workerVars, toApp, variantVars>>

WorkerInit ==
    /\ Init
    /\ window = [innerWidth |-> MaxWindow, innerHeight |-> MaxWindow]

WorkerNext == PostReconfiguration \/ ReceiveUpdate \/ Tick \/ Deliver

WorkerSpec == WorkerInit /\ [][WorkerNext]_vars

(***************************************************************************)
(* The frame loop: the foreground with its frame callbacks and key events, *)
(* fed by the worker, in a window that keeps its size.                     *)
(***************************************************************************)
\* a frame callback requested with requestAnimationFrame runs: update()
Frame ==
    /\ rafPending > 0
    /\ app.fpsCount < MaxFrames
    /\ \E js \in Draws :
         \E c \in {update(AppContext(app), js)} :
             /\ app' = c.a
             /\ rafPending' = rafPending - 1 + c.requested
             /\ frame' = [FrameOf(c) EXCEPT !.afterPause = frame.paused]
    /\ UNCHANGED <<window, resizePending, nonNullDeliveries, scatterCount, workerVars,
                   toWorker, toApp, posted, variantVars, sweep>>

\* the keys the keypress listener reacts to
Keys == {"d", " "}

\* a "keypress" event, once the constructor has added the listener
Keypress ==
    /\ app.constructed
    /\ \E key \in Keys : app' = keypress(app, key)
    /\ UNCHANGED <<window, resizePending, nonNullDeliveries, scatterCount, workerVars,
                   toWorker, toApp, posted, variantVars, frameVars>>

FrameInit ==
    /\ InitWith(Draws)
    /\ window = [innerWidth |-> MaxWindow, innerHeight |-> MaxWindow]

FrameNext == Frame \/ Keypress \/ ReceiveUpdate \/ Tick \/ Deliver

FrameSpec == FrameInit /\ [][FrameNext]_vars

(***************************************************************************)
(* The page: the frame loop in a window that changes its size, zero width  *)
(* and height included, fed by the bake the worker makes on every          *)
(* reconfiguration. The behaviours end before the first tick of the timer  *)
(* a reconfiguration sets (FrameSpec has the ticks).                       *)
(***************************************************************************)
\* the sizes the window takes: the full one, a narrower one, and the two
\* degenerate ones
PageWindows ==
    { [innerWidth |-> w[1], innerHeight |-> w[2]] :
        w \in { <<MaxWindow, MaxWindow>>, <<MaxWindow \div 2, MaxWindow>>,
                <<0, MaxWindow>>, <<MaxWindow, 0>> } }

\* the window takes a new size: the "resize" listener arms the debounced callback
PageResized ==
    /\ \E win \in PageWindows : win # window /\ window' = win
    /\ resizePending' = TRUE
    /\ UNCHANGED <<app, nonNullDeliveries, scatterCount, workerVars, toWorker, toApp,
                   posted, variantVars, frameVars>>

\* the debounced callback fires: resize(), while fewer than MaxPosts messages
\* were posted
PageResize == posted < MaxPosts /\ Resize

PageInit ==
    /\ InitWith(LeastDraws)
    /\ window = [innerWidth |-> MaxWindow, innerHeight |-> MaxWindow]
    /\ Len(app.colors) = MaxPalette

PageNext == Frame \/ Keypress \/ PageResized \/ PageResize \/ ReceiveUpdate \/ Deliver

PageSpec == PageInit /\ [][PageNext]_vars

(***************************************************************************)
(* The sweep: the frame loop and the interval timer of part_000 that calls *)
(* checkForFallenParticles, after the particles have drifted. No position  *)
(* is clamped, so a run of frames brings a particle to any distance from   *)
(* the canvas; the behaviours start after such a run.                      *)
(***************************************************************************)
\* the coordinates a particle has drifted to, on an axis of the canvas size n:
\* on either side of both slack lines, inside the canvas, and NaN
DriftedCoordinates(n) ==
    { 0 - SLACK - 1, 0 - SLACK, 0, n * PositionScale + SLACK - 1,
      n * PositionScale + SLACK, NaN }
Drifts ==
    { <<[i \in 1..NumParticles |-> p]>> :
        p \in DriftedCoordinates(CanvasSize(MaxWindow)) \X
              DriftedCoordinates(CanvasSize(MaxWindow)) }

\* a callback of setInterval(this.checkForFallenParticles.bind(this), 10000),
\* which the constructor of part_000 sets after its first update()
Sweep ==
    /\ appVariant = "part_000"
    /\ app.constructed
    /\ \E rs \in Draws :
         /\ app' = checkForFallenParticles(app, rs)
         /\ sweep' = [ ran |-> TRUE, width |-> app.width, height |-> app.height,
                       before |-> app.particles,
                       after |-> checkForFallenParticles(app, rs).particles ]
    /\ UNCHANGED <<window, resizePending, nonNullDeliveries, scatterCount, workerVars,
                   toWorker, toApp, posted, variantVars, rafPending, frame>>

SweepInit ==
    /\ InitDrifted(LeastDraws, Drifts)
    /\ window = [innerWidth |-> MaxWindow, innerHeight |-> MaxWindow]
    /\ Len(app.colors) = MaxPalette

SweepNext == Sweep \/ Frame \/ PageResized \/ PageResize

SweepSpec == SweepInit /\ [][SweepNext]_vars

(***************************************************************************)
(* The bake alone: computeGradients on any vibration field of a small      *)
(* grid, and recalculateGradients with any parameters. The functions are   *)
(* the same text in the three workers; the worker of index.js runs here.   *)
(***************************************************************************)
\* the grids (width, height) of BakeSpec
BakeGrids == { <<2, 2>>, <<3, 2>>, <<3, 3>> }
\* the vibration values of the fields computeGradients is applied to
FieldValues == { (k * MIN_NODE_THRESHOLD) \div 2 : k \in 1..MaxLevel }
\* the parameters recalculateGradients is applied to
BakeParameters ==
    { ChladniParams(p.m, p.n, l) :
        p \in {CHLADNI_PARAMS[1], CHLADNI_PARAMS[5], CHLADNI_PARAMS[9]}, l \in {L1, L2, L3} }

\* the worker between the two calls of recalculateGradients: this.vibrationValues
\* is filled, this.gradients is not computed yet
FilledWorker(width, height, cells) ==
    [ GradientWorker("index") EXCEPT
        !.width = width, !.height = height,
        !.vibrationValues =
            << [ Float32Array(width * height, [width |-> width, height |-> height],
                              ChladniParams(0, 0, 0), 0, 0)
                 EXCEPT !.cells = cells ] >> ]

\* the worker before its first bake: the size is set, the arrays are null
SizedWorker(width, height) ==
    [ GradientWorker("index") EXCEPT !.width = width, !.height = height ]

BakeInit ==
    /\ appVariant = "index"
    /\ workerVariant = "index"
    /\ window = [innerWidth |-> MaxWindow, innerHeight |-> MaxWindow]
    /\ \E rs \in LeastDraws :
         \E c \in {ChladniApp(window, 0, rs, rs)} :
             /\ app = c.a
             /\ toWorker = c.out
             /\ posted = Len(c.out)
             /\ scatterCount = IF c.scattered THEN 1 ELSE 0
             /\ rafPending = c.requested
             /\ frame = FrameOf(c)
             /\ sweep = NoSweep(c.a)
    /\ \E g \in BakeGrids :
         \/ worker = SizedWorker(g[1], g[2])
         \/ \E cells \in [0..(g[1] * g[2] - 1) -> FieldValues] :
                worker = FilledWorker(g[1], g[2], cells)
    /\ timers = {}
    /\ nextTimerId = 1
    /\ toApp = <<>>
    /\ resizePending = FALSE
    /\ log = <<>>
    /\ staleAccess = FALSE
    /\ prevConfig = Config(worker)
    /\ handled = 0
    /\ nonNullDeliveries = 0

\* the cells the loops of computeGradients visit
InteriorCells(w) ==
    { i \in 0..(w.width * w.height - 1) :
        IsInterior(w.width, w.height, i % w.width, i \div w.width) }

\* computeGradients() on the field the worker holds, as recalculateGradients
\* calls it after computeVibrationValues
ComputeGradients ==
    /\ worker.vibrationValues # <<>>
    /\ worker.gradients = <<>>
    /\ \E random \in [InteriorCells(worker) -> TieDraws] :
         \E c \in {computeGradients(
                       WithRandom(Context(worker, timers, nextTimerId), random))} :
             /\ worker' = c.w
             /\ staleAccess' = c.stale
    /\ UNCHANGED <<timers, nextTimerId, log, prevConfig, handled, toWorker, toApp,
                   appVars, posted, variantVars>>

\* recalculateGradients(chladniParams), in a worker that holds no field or
\* one of an earlier call
Recalculate ==
    /\ IF worker.vibrationValues = <<>> THEN TRUE ELSE worker.vibrationValues[1].m > 0
    /\ \E params \in BakeParameters, rx \in Random, ry \in Random,
          random \in [InteriorCells(worker) -> TieDraws] :
         \E c \in {recalculateGradients(
                       WithRandom(Context(worker, timers, nextTimerId), random),
                       params, rx, ry)} :
             /\ worker' = c.w
             /\ staleAccess' = c.stale
    /\ UNCHANGED <<timers, nextTimerId, log, prevConfig, handled, toWorker, toApp,
                   appVars, posted, variantVars>>

BakeNext == ComputeGradients \/ Recalculate

BakeSpec == BakeInit /\ [][BakeNext]_vars

(***************************************************************************)
(* Properties                                                              *)
(***************************************************************************)
IsResonant(msg) == msg.vibrationValues # <<>> /\ msg.gradients # <<>>
IsRest(msg) == msg.vibrationValues = <<>> /\ msg.gradients = <<>>
\* a step in which the worker handles a reconfiguration message
Handles == handled' = handled + 1

\* C1 Alternation: the messages emitted since the last handled reconfiguration
\* alternate, starting with a resonant one: the 1st, 3rd, ... have non-null
\* vibrationValues and gradients, the 2nd, 4th, ... have both null.
C1_Alternation ==
    \A i \in 1..Len(log) :
        IF i % 2 = 1 THEN IsResonant(log[i]) ELSE IsRest(log[i])

\* three emissions after one reconfiguration: resonant, rest, resonant
C1_Witness == Len(log) >= 3 /\ IsResonant(log[3]) /\ IsRest(log[2])

\* C2 Reconfiguration cancels the schedule: at most one interval timer is
\* active; once a timed worker has handled a reconfiguration, exactly one is
\* active, the one it stores in bakingTimer.
C2_OneTimer ==
    /\ Cardinality(timers) <= 1
    /\ (HasTimer /\ handled > 0) => timers = {worker.bakingTimer}

\* two reconfigurations handled, the second one's timer has ticked
C2_Witness == HasTimer /\ handled >= 2 /\ Len(log) >= 2 /\ Cardinality(timers) = 1

\* C3 Reconfiguration restarts from a resonant round: whatever the round phase,
\* the handler emits exactly one message, a resonant one, and the first tick
\* after it emits a rest message.
C3_RestartResonant ==
    /\ [][Handles => /\ Len(log') = 1
                     /\ IsResonant(log'[1])
                     /\ toApp' = Append(toApp, log'[1])]_vars
    /\ [](Len(log) >= 2 => IsRest(log[2]))

\* a reconfiguration handled when the next tick was due to be resonant, and
\* one handled when it was due to be a rest, each followed by its first tick
C3_WitnessResonantDue ==
    /\ HasTimer /\ handled >= 2 /\ prevConfig.round = TRUE /\ Len(log) >= 2
C3_Witness ==
    /\ HasTimer /\ handled >= 2 /\ prevConfig.round = FALSE /\ Len(log) >= 2

\* C4 No stale emission: every resonant message emitted since the last handled
\* reconfiguration was baked with the width, the height and the spatial
\* frequency the worker holds since that reconfiguration.
C4_NoStaleEmission ==
    \A i \in 1..Len(log) :
        IsResonant(log[i]) =>
            \A a \in {log[i].vibrationValues[1], log[i].gradients[1]} :
                /\ a.width = worker.width
                /\ a.height = worker.height
                /\ a.l = Config(worker).l

\* a reconfiguration changed the configuration, and a timer tick baked after it
C4_Witness ==
    /\ handled >= 2 /\ Len(log) >= 3 /\ IsResonant(log[3])
    /\ prevConfig.width # worker.width
    /\ prevConfig.l # Config(worker).l

\* C5 Exclusive buffer transfer: no step of the worker reads or writes a cell
\* of an array whose buffer it has transferred.
C5_NoAccessAfterTransfer == ~staleAccess

\* a bake on a grid with interior cells, run while the worker still held the
\* arrays of the buffers it transferred with an earlier resonant message
C5_Witness ==
    /\ Len(log) >= 3 /\ IsResonant(log[3])
    /\ log[3].vibrationValues[1].width >= 3 /\ log[3].vibrationValues[1].height >= 3
    /\ log[3].vibrationValues[1].length > 0
    /\ worker.vibrationValues[1].detached /\ worker.gradients[1].detached

\* C6 Paired field message: every emitted message has both fields non-null with
\* intensity 3 or both null with intensity 4.5 (in 1/100: 300, 450), and the
\* consumer's vibrationValues is null exactly when its gradients is null.
PairedMessage(msg) ==
    \/ IsResonant(msg) /\ msg.vibrationIntensity = 300
    \/ IsRest(msg) /\ msg.vibrationIntensity = 450
C6_Paired ==
    /\ \A i \in 1..Len(log) : PairedMessage(log[i])
    /\ \A i \in 1..Len(toApp) : PairedMessage(toApp[i])
    /\ (app.vibrationValues = <<>>) <=> (app.gradients = <<>>)

\* a rest message was delivered after a resonant one
C6_Witness ==
    /\ nonNullDeliveries >= 1 /\ app.gradients = <<>> /\ app.vibrationValues = <<>>
    /\ app.vibrationIntensity = 450

\* C7 Color cycle: with a non-empty palette, after k deliveries of messages
\* with non-null fields colorIndex = k mod paletteLength; a delivery with null
\* fields leaves colorIndex unchanged.
C7_ColorCycle ==
    /\ [](Len(app.colors) > 0 => app.colorIndex = nonNullDeliveries % Len(app.colors))
    /\ [][(toApp # <<>> /\ toApp' = Tail(toApp) /\ IsRest(Head(toApp)))
             => app'.colorIndex = app.colorIndex]_vars

\* the index wrapped around, and the last delivery was a rest message
C7_Witness ==
    /\ Len(app.colors) = 2 /\ nonNullDeliveries = 3 /\ app.colorIndex = 1
    /\ app.gradients = <<>> /\ app.vibrationIntensity = 450

\* the parameters a resonant message was baked with
BakedParams(msg) == ChladniParams(msg.vibrationValues[1].m, msg.vibrationValues[1].n,
                                  msg.vibrationValues[1].l)
\* the resonant messages among log[i], ..., log[Len(log)]
ResonantFrom(i) == Cardinality({j \in i..Len(log) : IsResonant(log[j])})

\* C8 as claimed: between two reconfigurations every resonant-round bake uses
\* the same m, n and l.
C8_SameParams ==
    \A i, j \in 1..Len(log) :
        (IsResonant(log[i]) /\ IsResonant(log[j])) => BakedParams(log[i]) = BakedParams(log[j])

\* C8 amended: between two reconfigurations every resonant-round bake uses the
\* spatial frequency the worker holds; the workers that keep currentParams
\* also use its m and n in every bake, while the worker of part_001 with the
\* CHLADNI_PARAMS table takes m and n from the next entry of the table at
\* every resonant bake.
C8_SameFrequency ==
    \A i \in 1..Len(log) :
        IsResonant(log[i]) =>
            /\ BakedParams(log[i]).l = Config(worker).l
            /\ workerVariant # "freq" => BakedParams(log[i]) = worker.currentParams[1]
            /\ workerVariant = "freq" =>
                 LET k == (worker.gradientParametersIndex + Len(CHLADNI_PARAMS)
                             - ResonantFrom(i)) % Len(CHLADNI_PARAMS)
                 IN  /\ BakedParams(log[i]).m = CHLADNI_PARAMS[k + 1].m
                     /\ BakedParams(log[i]).n = CHLADNI_PARAMS[k + 1].n

\* two resonant bakes of the table worker after one reconfiguration, with
\* different harmonic indices
C8_Witness ==
    /\ workerVariant = "freq" /\ Len(log) >= 3 /\ IsResonant(log[1]) /\ IsResonant(log[3])
    /\ BakedParams(log[1]).n # BakedParams(log[3]).n
    /\ BakedParams(log[1]).l = BakedParams(log[3]).l

\* the parameter field a worker reads, and the value it stores for it
ParameterAbsent(data) ==
    IF workerVariant = "freq" THEN data.frequency = UNDEFINED ELSE data.chladniParams = <<>>
StoredParameter(w) ==
    IF workerVariant = "freq" THEN <<w.currentFrequency>> ELSE w.currentParams

\* C9 Partial apply: handling a reconfiguration message leaves the stored
\* width, height and parameter unchanged when the field is absent from the
\* message.
C9_PartialApply ==
    [][Handles =>
        /\ Head(toWorker).width = UNDEFINED => worker'.width = worker.width
        /\ Head(toWorker).height = UNDEFINED => worker'.height = worker.height
        /\ ParameterAbsent(Head(toWorker)) =>
               StoredParameter(worker') = StoredParameter(worker)]_vars

\* a step of a Driver handler that sends a reconfiguration message, and one
\* that re-creates the particle positions
SendsMessage == posted' # posted
ScattersParticles == scatterCount' # scatterCount
\* a step of the slider's "input" listener, and one of resize()
SliderStep == app'.freqSlider # app.freqSlider
ResizeStep == resizePending /\ ~resizePending'

BakedFields ==
    { <<worker.vibrationValues[1], worker.gradients[1]>> : k \in
        { k \in {1} : /\ worker.vibrationValues # <<>> /\ worker.gradients # <<>>
                      /\ ~worker.vibrationValues[1].detached
                      /\ ~worker.gradients[1].detached } }
    \cup { <<log[i].vibrationValues[1], log[i].gradients[1]>> :
             i \in { i \in 1..Len(log) : IsResonant(log[i]) } }

\* the grids of the claims: numbers of columns and rows
IsGrid(f) == f[1].width \in Nat /\ f[1].height \in Nat
\* the cells (x, y) of a field that have 8 neighbours
Interior(f) ==
    IF IsGrid(f) THEN (1..(f[1].width - 2)) \X (1..(f[1].height - 2)) ELSE {}
\* the cells (x, y) on the border of a field
Border(f) ==
    IF IsGrid(f)
    THEN { p \in (0..(f[1].width - 1)) \X (0..(f[1].height - 1)) :
             p[1] \in {0, f[1].width - 1} \/ p[2] \in {0, f[1].height - 1} }
    ELSE {}
\* the vibration value and the gradient of a field at cell p
ValueAt(f, p) == f[1].cells[p[2] * f[1].width + p[1]]
GradientAt(f, p) == << f[2].cells[2 * (p[2] * f[1].width + p[1])],
                       f[2].cells[2 * (p[2] * f[1].width + p[1]) + 1] >>
\* the 8 neighbour offsets, and those whose cell holds the least value
Offsets == ((0 - 1)..1) \X ((0 - 1)..1) \ {<<0, 0>>}
NeighbourValue(f, p, d) == ValueAt(f, <<p[1] + d[1], p[2] + d[2]>>)
MinOffsets(f, p) ==
    { d \in Offsets : \A e \in Offsets : NeighbourValue(f, p, d) <= NeighbourValue(f, p, e) }
AtOrAbove(f, p) == ValueAt(f, p) >= MIN_NODE_THRESHOLD

\* C15 Descent selection: at every interior cell whose vibration value is at or
\* above the node threshold, the gradient written by computeGradients is the
\* offset (dx, dy) # (0, 0) of one of the 8 neighbours whose value is the least
\* of the 8; the initial candidate (0, 0) is never written.
C15_DescentSelection ==
    \A f \in BakedFields : \A p \in Interior(f) :
        AtOrAbove(f, p) =>
            /\ GradientAt(f, p) # <<0, 0>>
            /\ GradientAt(f, p) \in MinOffsets(f, p)

\* a 3 x 3 field whose centre is at the threshold and whose least neighbour is
\* the last one examined
C15_Witness ==
    \E f \in BakedFields :
        /\ f[1].width = 3 /\ f[1].height = 3
        /\ ValueAt(f, <<1, 1>>) = MIN_NODE_THRESHOLD
        /\ MinOffsets(f, <<1, 1>>) = {<<1, 1>>}
        /\ GradientAt(f, <<1, 1>>) = <<1, 1>>

\* the elements of a sequence, and the offsets the random pick can return
Elements(seq) == { seq[i] : i \in 1..Len(seq) }
Selectable(f, p) ==
    { chosenGradient(candidateGradients(f[1], f[1].width, p[1], p[2]), draw) :
        draw \in TieDraws }

\* C16 Tie-breaking covers every tie: at every interior cell at or above the
\* threshold the candidate list at the random pick holds exactly the offsets
\* of the neighbours at the minimum, each once, and each of them is the output
\* for some value of Math.random().
C16_TieBreaking ==
    \A f \in BakedFields : \A p \in Interior(f) :
        AtOrAbove(f, p) =>
            /\ Elements(candidateGradients(f[1], f[1].width, p[1], p[2])) = MinOffsets(f, p)
            /\ Len(candidateGradients(f[1], f[1].width, p[1], p[2]))
                   = Cardinality(MinOffsets(f, p))
            /\ Selectable(f, p) = MinOffsets(f, p)
            /\ GradientAt(f, p) \in Selectable(f, p)

\* a tie of three neighbours, settled for the second of them
C16_Witness ==
    \E f \in BakedFields :
        /\ f[1].width = 3 /\ f[1].height = 3
        /\ AtOrAbove(f, <<1, 1>>)
        /\ MinOffsets(f, <<1, 1>>) = { <<0 - 1, 0 - 1>>, <<1, 0>>, <<1, 1>> }
        /\ GradientAt(f, <<1, 1>>) = <<1, 0>>

\* C17 Border zero: on every grid with width >= 2 and height >= 2, after a bake
\* the gradient at every cell with x in {0, width - 1} or y in {0, height - 1}
\* is (0, 0).
C17_BorderZero ==
    \A f \in BakedFields :
        (IsGrid(f) /\ f[1].width >= 2 /\ f[1].height >= 2) =>
            \A p \in Border(f) : GradientAt(f, p) = <<0, 0>>

\* a 3 x 3 field with a gradient at its centre and values above the threshold
\* on its border
C17_Witness ==
    \E f \in BakedFields :
        /\ f[1].width = 3 /\ f[1].height = 3
        /\ GradientAt(f, <<1, 1>>) # <<0, 0>>
        /\ \A p \in Border(f) : ValueAt(f, p) > MIN_NODE_THRESHOLD

\* C18 Threshold rule: at every interior cell whose vibration value is below
\* 0.01 the gradient written by computeGradients is (0, 0), whatever the
\* values of its neighbours.
C18_ThresholdRule ==
    \A f \in BakedFields : \A p \in Interior(f) :
        ValueAt(f, p) < MIN_NODE_THRESHOLD => GradientAt(f, p) = <<0, 0>>

\* a centre below the threshold with one neighbour below it
C18_Witness ==
    \E f \in BakedFields :
        /\ f[1].width = 3 /\ f[1].height = 3 /\ f[1].m = 0
        /\ ValueAt(f, <<1, 1>>) < MIN_NODE_THRESHOLD
        /\ NeighbourValue(f, <<1, 1>>, <<0, 1>>) < MIN_NODE_THRESHOLD
        /\ NeighbourValue(f, <<1, 1>>, <<1, 0>>) > MIN_NODE_THRESHOLD
        /\ GradientAt(f, <<1, 1>>) = <<0, 0>>

\* the arrays computeVibrationValues has filled: the one the worker holds and
\* those of the messages emitted and in flight
VibrationFields ==
    { worker.vibrationValues[1] : k \in { k \in {1} : worker.vibrationValues # <<>> } }
    \cup { log[i].vibrationValues[1] : i \in { i \in 1..Len(log) : IsResonant(log[i]) } }
    \cup { toApp[i].vibrationValues[1] : i \in { i \in 1..Len(toApp) : IsResonant(toApp[i]) } }
    \cup { app.vibrationValues[1] : k \in { k \in {1} : app.vibrationValues # <<>> } }

\* C19 Non-negativity: every value computeVibrationValues stores in the
\* vibration field is a number >= 0, for every cell, m, n, l and phase offsets.
C19_NonNegative ==
    \A a \in VibrationFields : \A i \in DOMAIN a.cells :
        a.cells[i] # NaN /\ a.cells[i] >= 0

\* a computed field with a cell whose raw difference of cosines is negative
C19_Witness ==
    \E a \in VibrationFields :
        /\ a.m > 0 /\ a.width = 3 /\ a.height = 3
        /\ \E x, y \in 0..2 :
             /\ RawValue(a.m, a.n, Scaled(x, a.l, a.tx), Scaled(y, a.l, a.ty)) < 0
             /\ a.cells[y * 3 + x] > 0

(***************************************************************************)
(* Properties of the frame loop                                            *)
(***************************************************************************)
Particles == 1..NumParticles
Axes == {1, 2}
IsNumber(v) == v \notin {NULL, UNDEFINED, NaN}
\* the rounded position of p lies in [0, width) x [0, height) of the last frame
InBounds(p) ==
    /\ IsNumber(p[1]) /\ IsNumber(p[2])
    /\ Round(p[1]) >= 0 /\ Round(p[1]) < frame.width
    /\ Round(p[2]) >= 0 /\ Round(p[2]) < frame.height
\* the displacement of particle i on axis k in the last frame is a jitter draw:
\* a number in [-intensity / 2, intensity / 2)
JitterOnly(i, k) ==
    /\ IsNumber(frame.before[i][k]) /\ IsNumber(frame.after[i][k])
    /\ 2 * (frame.after[i][k] - frame.before[i][k]) >= 0 - frame.intensity
    /\ 2 * (frame.after[i][k] - frame.before[i][k]) < frame.intensity

\* C11 Out-of-bounds sampling is contained: in a frame with an active gradient
\* field, a particle whose rounded position lies outside the grid is moved by
\* jitter only, stays a number, and no element of the field is read for it.
C11_SamplingContained ==
    (frame.advanced /\ frame.active) =>
        \A i \in Particles :
            ~InBounds(frame.before[i]) =>
                /\ \A k \in Axes : JitterOnly(i, k)
                /\ frame.sampled[i] = <<>>

\* C12 Out-of-bounds raster is skipped: in every frame, a particle whose rounded
\* new position has x outside [0, width) or y outside [0, height) causes no
\* store to the framebuffer.
C12_RasterSkipped ==
    frame.advanced =>
        \A i \in Particles : ~InBounds(frame.after[i]) => frame.written[i] = <<>>

\* a frame callback runs, and a key toggles pause
FrameStep == app'.fpsCount = app.fpsCount + 1
PauseStep == app'.isRunning # app.isRunning

\* C13 Pause: while running is false every frame callback requests exactly one
\* next frame callback and changes neither a particle position nor the
\* framebuffer; toggling pause changes neither, and the first frame after the
\* pause advances from the positions the pause began with.
C13_Pause ==
    [][ /\ (FrameStep /\ ~app.isRunning) =>
               /\ app'.particles = app.particles
               /\ app'.buffer = app.buffer
               /\ frame'.requested = 1 /\ rafPending' = rafPending
               /\ ~frame'.advanced /\ frame'.after = frame.after
        /\ PauseStep => (app'.particles = app.particles /\ app'.buffer = app.buffer)
        /\ (FrameStep /\ app.isRunning /\ frame.paused) =>
               (frame'.advanced /\ frame'.before = frame.after) ]_vars

\* a frame ran while paused, then pause was toggled back and a frame advanced
\* the particles
C13_Witness ==
    /\ frame.afterPause /\ frame.advanced /\ frame.requested = 1
    /\ frame.after # frame.before

\* C14 The foreground never waits for a field: a frame executed before any
\* field message was delivered (the intensity is the default 2) or after a
\* rest message (the intensity is 4.5) runs to its end, reads no gradient and
\* moves each particle by jitter only; a position that is NaN stays NaN.
C14_JitterOnlyWithoutField ==
    (frame.advanced /\ frame.intensity \in { DEFAULT_RANDOM_VIBRATION_INTENSITY,
                                             AGGRESSIVE_RANDOM_VIBRATION_INTENSITY }) =>
        /\ frame.requested = 1
        /\ ~frame.active
        /\ \A i \in Particles :
             /\ frame.sampled[i] = <<>>
             /\ \A k \in Axes :
                  IF IsNumber(frame.before[i][k]) THEN JitterOnly(i, k)
                  ELSE frame.after[i][k] = NaN

\* a frame after a rest message that followed a resonant one
C14_Witness ==
    /\ frame.advanced /\ frame.intensity = AGGRESSIVE_RANDOM_VIBRATION_INTENSITY
    /\ nonNullDeliveries >= 1 /\ app.fpsCount >= 2
    /\ \A i \in Particles : \A k \in Axes : IsNumber(frame.after[i][k])

\* C20 Jitter bound: after a frame with no active gradient field every
\* particle's displacement on each axis is a number with
\* |newPos - oldPos| <= intensity.
C20_JitterBound ==
    (frame.advanced /\ ~frame.active) =>
        \A i \in Particles : \A k \in Axes :
            /\ IsNumber(frame.before[i][k]) /\ IsNumber(frame.after[i][k])
            /\ frame.after[i][k] - frame.before[i][k] <= frame.intensity
            /\ frame.before[i][k] - frame.after[i][k] <= frame.intensity

(***************************************************************************)
(* Properties of the page                                                  *)
(***************************************************************************)
\* C21 Degenerate grid: a frame whose gradient field was baked for a grid of
\* width 0 or height 0 (the field has no element) moves every particle by
\* jitter only: no particle is pulled, and none becomes NaN.
C21_DegenerateGrid ==
    (frame.advanced /\ frame.active /\ frame.field[1].length = 0) =>
        \A i \in Particles : \A k \in Axes :
            IsNumber(frame.before[i][k]) => JitterOnly(i, k)

\* the particle at p has left the canvas of the last sweep by SLACK or more
Fallen(p) ==
    \/ (IsNumber(p[1]) /\ p[1] < 0 - SLACK)
    \/ (IsNumber(p[1]) /\ p[1] >= sweep.width * PositionScale + SLACK)
    \/ (IsNumber(p[2]) /\ p[2] < 0 - SLACK)
    \/ (IsNumber(p[2]) /\ p[2] >= sweep.height * PositionScale + SLACK)
\* p lies inside [0, width) x [0, height) of the last sweep
InsideCanvas(p) ==
    /\ IsNumber(p[1]) /\ 0 <= p[1] /\ p[1] < sweep.width * PositionScale
    /\ IsNumber(p[2]) /\ 0 <= p[2] /\ p[2] < sweep.height * PositionScale
\* the last sweep kept the number of particles, left every particle that had
\* not fallen where it was, and moved every fallen one
SweptOnlyFallen ==
    /\ DOMAIN sweep.after = DOMAIN sweep.before
    /\ \A i \in Particles : ~Fallen(sweep.before[i]) => sweep.after[i] = sweep.before[i]

C23_FieldMatchesDimensions ==
    (frame.advanced /\ frame.active) =>
        /\ frame.field[1].width = frame.width
        /\ frame.field[1].height = frame.height

\* the position p itself, before rounding, lies in [0, width) x [0, height) of
\* the last frame
OnCanvas(p) ==
    /\ IsNumber(p[1]) /\ 0 <= p[1] /\ p[1] < frame.width * PositionScale
    /\ IsNumber(p[2]) /\ 0 <= p[2] /\ p[2] < frame.height * PositionScale

\* C24 In-bounds particles index in-bounds cells: in every frame, a particle
\* whose position lies in [0, width) x [0, height) is sampled, and one whose new
\* position lies there is drawn, at rounded coordinates within [0, width) and
\* [0, height): the index is that of a cell of its own row inside the buffer.
C24_InBoundsIndex ==
    frame.advanced =>
        \A i \in Particles :
            /\ (frame.active /\ OnCanvas(frame.before[i])) => InBounds(frame.before[i])
            /\ OnCanvas(frame.after[i]) =>
                   /\ InBounds(frame.after[i])
                   /\ frame.written[i] =
                          << Round(frame.after[i][2]) * frame.width
                                 + Round(frame.after[i][1]) >>

\* C25 Single frame loop: once update() has been called, exactly one frame
\* callback is pending in every state, whatever ran since: frames, paused or
\* not, key presses, resizes and deliveries; before the first call none is.
C25_SingleFrameLoop ==
    IF app.fpsCount > 0 THEN rafPending = 1 ELSE rafPending = 0

\* the loop after a resize, a delivery of a field and a paused frame
C25_Witness ==
    /\ rafPending = 1 /\ app.fpsCount = MaxFrames
    /\ scatterCount >= 2 /\ nonNullDeliveries >= 1
    /\ frame.paused /\ ~frame.advanced

(***************************************************************************)
(* Properties of the start                                                 *)
(***************************************************************************)
\* C26 Startup ordering: the constructor of index.js creates the slider before
\* resize() reads it, so it runs to its end: the slider exists, the frame loop
\* has started and the first parameters were posted to the worker.
C26_StartupOrdering ==
    appVariant = "index" =>
        /\ app.constructed /\ app.freqSlider # <<>>
        /\ app.fpsCount > 0 /\ rafPending = 1
        /\ posted >= 1

\* the widths and heights resize() computes from the window
DriverSizes == { CanvasSize(n) : n \in WindowSizes }

\* C27 No emission before configuration: until the worker has handled its
\* first reconfiguration message it has emitted nothing and no timer is armed;
\* every resonant message emitted since the last reconfiguration was baked for
\* the width and height the worker holds, and these are sizes the Driver sent,
\* not the null the constructor stores.
C27_NoEmissionBeforeConfiguration ==
    /\ handled = 0 =>
           /\ timers = {} /\ log = <<>> /\ toApp = <<>>
           /\ nonNullDeliveries = 0 /\ app.gradients = <<>>
    /\ \A k \in DOMAIN log :
           IsResonant(log[k]) =>
               /\ handled >= 1
               /\ log[k].gradients[1].width = worker.width
               /\ log[k].gradients[1].height = worker.height
               /\ log[k].gradients[1].width \in DriverSizes
               /\ log[k].gradients[1].height \in DriverSizes

\* a second resonant round after a reconfiguration, on the armed timer
C27_Witness ==
    /\ handled >= 1 /\ timers # {}
    /\ Len(log) >= 3 /\ IsResonant(log[3])
    /\ log[3].gradients[1].width > 0

====
